---- MODULE Spec2Model ----
(***************************************************************************)
(* FIRContract (contracts/FIRContract.sol): an on-ledger registry mapping  *)
(* a FIR identifier to a record (dataCID, dataHash, status, timestamp,     *)
(* submitter, exists), with the operations submitFIR, updateFIRStatus and  *)
(* getFIR.  Every call is one atomic ledger transaction: it either commits *)
(* all of its writes and events, or reverts with a reason and writes       *)
(* nothing.                                                                *)
(***************************************************************************)
EXTENDS Integers, Sequences, FiniteSets, TLC

(***************************************************************************)
(* Bounds of the model.                                                    *)
(***************************************************************************)
\* block.timestamp runs from 1 to MaxTime
MaxTime == 2
\* _status arguments 0..MaxStatusArg are tried, and the largest uint8
MaxStatusArg == 3
\* the event log holds at most MaxEvents events
MaxEvents == 3
\* at most MaxPool transactions are issued in a race
MaxPool == 2
\* the client makes at most MaxCalls calls of web3-utils
MaxCalls == 2
\* Date.now() runs from 1 to MaxClock
MaxClock == 2
\* at most MaxFiles evidence files are attached to a report
MaxFiles == 1
\* at most MaxConnects calls of connect are in flight at once
MaxConnects == 2

\* enum FIRStatus { Pending, UnderInvestigation, Closed }
Pending == 0
UnderInvestigation == 1
Closed == 2
\* the values of the enum
Statuses == {Pending, UnderInvestigation, Closed}

\* the largest value of uint8 _status
Uint8Max == 255

\* string _firId: the empty string and a non-empty one
FirIds == {"", "FIR-001"}
\* string _dataCID: the empty string and two non-empty ones
DataCIDs == {"", "bafy-abc", "bafy-xyz"}
\* bytes32 _dataHash
DataHashes == {0, 1}
\* msg.sender; address(0) is the default value of an unset address
Callers == {1, 2}
\* uint8 _status
StatusArgs == (0..MaxStatusArg) \cup {Uint8Max}

VARIABLES firs, events, now, ret, pool, mined

\* the client: Date.now(), the content store, window.localStorage, the
\* running call of web3-utils, the running handleSubmit, the transactions the
\* client has sent and the identifiers it has generated
VARIABLES clock, ipfs, localStorage, cl, hs, sent, gen

\* the pages and hooks of the application, and the ledger's block height
VARIABLES w3, auth, dash, sc, height, minedAt

uvars == <<w3, auth, dash, sc, height, minedAt>>

cvars == <<clock, ipfs, localStorage, cl, hs, sent, gen, uvars>>

vars == <<firs, events, now, ret, pool, mined, cvars>>

\* the value a Solidity mapping holds for a key that was never written
DefaultFIR ==
  [dataCID |-> "", dataHash |-> 0, status |-> Pending, timestamp |-> 0,
   submitter |-> 0, exists |-> FALSE]

\* struct FIR, as stored in mapping(string => FIR) firs
FIR ==
  [dataCID : DataCIDs, dataHash : DataHashes,
   status : {Pending, UnderInvestigation, Closed}, timestamp : 0..MaxTime,
   submitter : {0} \cup Callers, exists : BOOLEAN]

\* what the caller of a transaction or call observes
Outcome(op, reason, value) == [op |-> op, reason |-> reason, value |-> value]

(***************************************************************************)
(* submitFIR                                                               *)
(***************************************************************************)
\* submitFIR without the duplicate check: a second registration overwrites
SubmitRequire_NoDuplicateCheck(f, id, cid) ==
  IF ~(id # "") THEN "FIR ID cannot be empty"
  ELSE IF ~(cid # "") THEN "Data CID cannot be empty"
  ELSE "ok"

\* submitFIR without the check of the identifier's length
SubmitRequire_NoIdCheck(f, id, cid) ==
  IF f[id].exists THEN "FIR already exists"
  ELSE IF ~(cid # "") THEN "Data CID cannot be empty"
  ELSE "ok"

\* submitFIR with the check of the locator moved to the front
SubmitRequire_CidFirst(f, id, cid) ==
  IF ~(cid # "") THEN "Data CID cannot be empty"
  ELSE IF f[id].exists THEN "FIR already exists"
  ELSE IF ~(id # "") THEN "FIR ID cannot be empty"
  ELSE "ok"

\* the three require statements, in source order; "ok" when all pass
SubmitRequire(f, id, cid) ==
  IF f[id].exists THEN "FIR already exists"
  ELSE IF ~(id # "") THEN "FIR ID cannot be empty"
  ELSE IF ~(cid # "") THEN "Data CID cannot be empty"
  ELSE "ok"

\* a struct literal that leaves the submitter at its default
NewFIR_NoSubmitter(cid, h, t, c) ==
  [dataCID |-> cid, dataHash |-> h, status |-> Pending, timestamp |-> t,
   submitter |-> 0, exists |-> TRUE]

\* the struct literal written to firs[_firId]
NewFIR(cid, h, t, c) ==
  [dataCID |-> cid, dataHash |-> h, status |-> Pending, timestamp |-> t,
   submitter |-> c, exists |-> TRUE]

\* the event emitted with identifier and locator in each other's place
FIRSubmitted_Swapped(id, cid, c) ==
  [name |-> "FIRSubmitted", firId |-> cid, dataCID |-> id, submitter |-> c]

\* emit FIRSubmitted(_firId, _dataCID, msg.sender)
FIRSubmitted(id, cid, c) ==
  [name |-> "FIRSubmitted", firId |-> id, dataCID |-> cid, submitter |-> c]

\* the effect of one submitFIR transaction on the contract and its caller
SubmitEffect(id, cid, h, c) ==
  LET r == SubmitRequire(firs, id, cid) IN
  /\ r = "ok" => Len(events) < MaxEvents
  /\ ret' = Outcome("submitFIR", r, <<>>)
  /\ IF r = "ok"
       THEN /\ firs' = [firs EXCEPT ![id] = NewFIR(cid, h, now, c)]
            /\ events' = Append(events, FIRSubmitted(id, cid, c))
       ELSE UNCHANGED <<firs, events>>

SubmitFIR(id, cid, h, c) ==
  /\ SubmitEffect(id, cid, h, c)
  /\ UNCHANGED <<now, pool, mined>>
  /\ UNCHANGED cvars

(***************************************************************************)
(* updateFIRStatus                                                         *)
(***************************************************************************)
\* updateFIRStatus without the existence check
UpdateRequire_NoExistsCheck(f, id, s) ==
  IF ~(s <= Closed) THEN "Invalid status"
  ELSE "ok"

\* updateFIRStatus with the range check off by one
UpdateRequire_OffByOne(f, id, s) ==
  IF ~f[id].exists THEN "FIR does not exist"
  ELSE IF ~(s <= Closed + 1) THEN "Invalid status"
  ELSE "ok"

\* updateFIRStatus with a lifecycle guard: a Closed record is final
UpdateRequire_ClosedIsFinal(f, id, s) ==
  IF ~f[id].exists THEN "FIR does not exist"
  ELSE IF ~(s <= Closed) THEN "Invalid status"
  ELSE IF f[id].status = Closed THEN "FIR is closed"
  ELSE "ok"

\* the two require statements, in source order; "ok" when both pass
UpdateRequire(f, id, s) ==
  IF ~f[id].exists THEN "FIR does not exist"
  ELSE IF ~(s <= Closed) THEN "Invalid status"
  ELSE "ok"

\* the record rebuilt from defaults instead of one field assigned
SetStatus_Rebuild(f, id, s) ==
  [f EXCEPT ![id] = [DefaultFIR EXCEPT !.status = s]]

\* the status assigned and the digest reset to its default
SetStatus_ClobberDigest(f, id, s) ==
  [f EXCEPT ![id].status = s, ![id].dataHash = 0]

\* the status assigned to every registered record
SetStatus_All(f, id, s) ==
  [k \in DOMAIN f |-> IF f[k].exists THEN [f[k] EXCEPT !.status = s] ELSE f[k]]

\* firs[_firId].status = FIRStatus(_status)
SetStatus(f, id, s) == [f EXCEPT ![id].status = s]

FIRStatusUpdated(id, s) ==
  [name |-> "FIRStatusUpdated", firId |-> id, status |-> s]

\* updateFIRStatus with an access check: only the submitter may update
UpdateFIRStatus_SubmitterOnly(id, s, c) ==
  LET r == IF firs[id].exists /\ firs[id].submitter # c
             THEN "Not the submitter"
             ELSE UpdateRequire(firs, id, s) IN
  /\ r = "ok" => Len(events) < MaxEvents
  /\ ret' = Outcome("updateFIRStatus", r, <<>>)
  /\ IF r = "ok"
       THEN /\ firs' = SetStatus(firs, id, s)
            /\ events' = Append(events, FIRStatusUpdated(id, s))
       ELSE UNCHANGED <<firs, events>>
  /\ UNCHANGED <<now, pool, mined>>
  /\ UNCHANGED cvars

\* the effect of one updateFIRStatus transaction on the contract and its
\* caller
UpdateEffect(id, s, c) ==
  LET r == UpdateRequire(firs, id, s) IN
  /\ r = "ok" => Len(events) < MaxEvents
  /\ ret' = Outcome("updateFIRStatus", r, <<>>)
  /\ IF r = "ok"
       THEN /\ firs' = SetStatus(firs, id, s)
            /\ events' = Append(events, FIRStatusUpdated(id, s))
       ELSE UNCHANGED <<firs, events>>

UpdateFIRStatus(id, s, c) ==
  /\ UpdateEffect(id, s, c)
  /\ UNCHANGED <<now, pool, mined>>
  /\ UNCHANGED cvars

(***************************************************************************)
(* getFIR                                                                  *)
(***************************************************************************)
GetRequire(f, id) == IF ~f[id].exists THEN "FIR does not exist" ELSE "ok"

GetReturn(f, id) ==
  <<f[id].dataCID, f[id].dataHash, f[id].status, f[id].timestamp,
    f[id].submitter>>

\* the outcome of the view call getFIR(_firId) on registry f
getFIR(f, id) ==
  LET r == GetRequire(f, id) IN
  Outcome("getFIR", r, IF r = "ok" THEN GetReturn(f, id) ELSE <<>>)

\* a getter that is not a view: it stamps the record it reads
GetFIR_Stamp(id) ==
  /\ ret' = getFIR(firs, id)
  /\ firs' = IF firs[id].exists
              THEN [firs EXCEPT ![id].timestamp = now]
              ELSE firs
  /\ UNCHANGED <<events, now, pool, mined>>
  /\ UNCHANGED cvars

GetFIR(id) ==
  /\ ret' = getFIR(firs, id)
  /\ UNCHANGED <<firs, events, now, pool, mined>>
  /\ UNCHANGED cvars

(***************************************************************************)
(* The ledger                                                              *)
(***************************************************************************)
\* a later block: block.timestamp moves forward
NewBlock ==
  /\ now < MaxTime
  /\ now' = now + 1
  /\ UNCHANGED <<firs, events, ret, pool, mined>>
  /\ UNCHANGED cvars

\* no call of web3-utils is running
IdleCall ==
  [fn |-> "none", pc |-> "idle", firId |-> "", dataCID |-> "", dataHash |-> "",
   status |-> 0, wallet |-> 0, rejected |-> "", result |-> <<>>, n |-> 0]

\* handleSubmit is not running
IdleSubmit ==
  [pc |-> "idle", files |-> 0, wallet |-> 0, data |-> <<>>,
   fileCIDs |-> <<>>, dataCID |-> "", firId |-> "", dataHash |-> "",
   toast |-> ""]

\* useWeb3 as its useState calls initialise it; account 0 is null; granted
\* are the accounts the wallet exposes to the page, ethereum tells whether
\* window.ethereum is present, connects counts the calls of connect in flight
\* and detect is the position of the auto-detect effect
IdleWallet ==
  [account |-> 0, isConnected |-> FALSE, isConnecting |-> FALSE,
   connects |-> 0, detect |-> "pending", granted |-> <<>>, ethereum |-> TRUE,
   toast |-> ""]

\* nobody is signed in and the landing page is shown
SignedOut == [role |-> "none", route |-> "/"]

\* the dashboard's useState calls: no FIRs listed, no update running
IdleDash ==
  [firs |-> <<>>, isUpdating |-> FALSE, pc |-> "idle", firId |-> "",
   newStatus |-> "", closure |-> <<>>, toast |-> "", ran |-> <<>>]

\* StatusCheck's useState calls: nothing searched
IdleCheck ==
  [pc |-> "idle", firId |-> "", loading |-> FALSE, blockchainData |-> <<>>,
   firData |-> <<>>, toast |-> ""]

\* CONTRACT_DEPLOYMENT_BLOCK
CONTRACT_DEPLOYMENT_BLOCK == 15691900

\* the page has just been loaded: nothing stored, nothing running
ClientInit ==
  /\ clock = 1
  /\ ipfs = {}
  /\ localStorage = {}
  /\ cl = IdleCall
  /\ hs = IdleSubmit
  /\ sent = <<>>
  /\ gen = <<>>
  /\ w3 = IdleWallet
  /\ auth = SignedOut
  /\ dash = IdleDash
  /\ sc = IdleCheck
  /\ height = CONTRACT_DEPLOYMENT_BLOCK
  /\ minedAt = <<>>

\* the contract has just been deployed
RegistryInit ==
  /\ firs = [id \in FirIds |-> DefaultFIR]
  /\ events = <<>>
  /\ now = 1
  /\ ret = Outcome("deploy", "ok", <<>>)
  /\ pool = {}
  /\ mined = <<>>

Init ==
  /\ RegistryInit
  /\ ClientInit

Next ==
  \/ \E id \in FirIds, cid \in DataCIDs, h \in DataHashes, c \in Callers :
       SubmitFIR(id, cid, h, c)
  \/ \E id \in FirIds, s \in StatusArgs, c \in Callers :
       UpdateFIRStatus(id, s, c)
  \/ \E id \in FirIds : GetFIR(id)
  \/ NewBlock

Spec == Init /\ [][Next]_vars

\* the shape of the state
TypeOK ==
  /\ firs \in [FirIds -> FIR]
  /\ Len(events) <= MaxEvents
  /\ now \in 1..MaxTime
  /\ ret.op \in {"deploy", "submitFIR", "updateFIRStatus", "getFIR"}
  /\ Cardinality(pool) + Len(mined) <= MaxPool

(***************************************************************************)
(* Callers racing to register: transactions are first issued to the        *)
(* ledger's pending pool and the ledger then commits them one at a time,   *)
(* in an order of its own choosing.                                        *)
(***************************************************************************)
SubmitTx(id, cid, h, c) ==
  [firId |-> id, dataCID |-> cid, dataHash |-> h, sender |-> c]

\* a caller signs and sends a submitFIR transaction
Issue(tx) ==
  /\ Cardinality(pool) + Len(mined) < MaxPool
  /\ tx \notin pool
  /\ \A i \in 1..Len(mined) : mined[i].tx # tx
  /\ pool' = pool \cup {tx}
  /\ UNCHANGED <<firs, events, now, ret, mined>>
  /\ UNCHANGED cvars

\* the ledger orders one pending transaction next and executes it
Mine(tx) ==
  /\ tx \in pool
  /\ SubmitEffect(tx.firId, tx.dataCID, tx.dataHash, tx.sender)
  /\ pool' = pool \ {tx}
  /\ mined' = Append(mined, [tx |-> tx, reason |-> ret'.reason, time |-> now])
  /\ UNCHANGED now
  /\ UNCHANGED cvars

RaceNext ==
  \/ \E id \in FirIds, cid \in DataCIDs, h \in DataHashes, c \in Callers :
       Issue(SubmitTx(id, cid, h, c))
  \/ \E tx \in pool : Mine(tx)
  \/ NewBlock

SpecRace == Init /\ [][RaceNext]_vars

(***************************************************************************)
(* web3-utils.ts: the client's calls of the registry.  Every await is a    *)
(* step; between two steps other callers' transactions may commit.  The    *)
(* node answers a request or fails to ("unreachable"), and getCode may     *)
(* find no contract at the address ("nocode").                             *)
(***************************************************************************)
\* dataHash as the client passes it: a hex digest
ClientHashes == {"c0ffee"}
\* what another caller registers while the client runs
OtherCID == "bafy-xyz"
OtherHash == "0xdecaf"
OtherCaller == 2
\* walletAddress: an account of the wallet, or 0 for the empty string
ClientWallets == {0, 1}
\* the content identifiers the client is called with
ClientCIDs == {"", "bafy-abc"}

\* CryptoJS.SHA256(text).toString(), taken as free of collisions
Sha256(text) == "sha256(" \o text \o ")"

\* hashData: SHA256 of the JSON text of the data
hashData(json) == Sha256(json)

\* '0x' + dataHash.substring(0, 64).padEnd(64, '0'), for a 64-digit digest
ToBytes32(h) == "0x" \o h

\* String.prototype.toLowerCase on the revert reasons of the contract
ToLowerCase(m) ==
  CASE m = "FIR already exists" -> "fir already exists"
    [] m = "FIR ID cannot be empty" -> "fir id cannot be empty"
    [] m = "Data CID cannot be empty" -> "data cid cannot be empty"
    [] m = "FIR does not exist" -> "fir does not exist"
    [] m = "Invalid status" -> "invalid status"
    [] OTHER -> m

\* the message of the error web3 raises for a reverting call, in its parts:
\* a prefix and the contract's reason
RevertError(reason) == <<"execution reverted: ", reason>>

\* the message of the error web3 raises when the request fails
NetworkError == <<"network error">>

\* error.message as one string
Text(parts) ==
  IF Len(parts) = 1 THEN parts[1] ELSE parts[1] \o parts[2]

\* message.toLowerCase().includes(needle)
LowerIncludes(parts, needle) ==
  \E i \in 1..Len(parts) : ToLowerCase(parts[i]) = needle

\* localStorage.setItem(key, value)
SetItem(store, key, value) ==
  {e \in store : e.key # key} \cup {[key |-> key, value |-> value]}

\* a call of web3-utils starts
Begin(fn, id, cid, h, s, w) ==
  [fn |-> fn, pc |-> "getCode", firId |-> id, dataCID |-> cid, dataHash |-> h,
   status |-> s, wallet |-> w, rejected |-> "", result |-> <<>>,
   n |-> cl.n + 1]

\* the errors submitFIRToBlockchain throws for a failed simulation
SubmitCallError(parts) ==
  IF LowerIncludes(parts, "fir already exists") THEN "FIR_ALREADY_EXISTS"
  ELSE IF LowerIncludes(parts, "fir id cannot be empty") THEN "INVALID_FIR_ID"
  ELSE IF LowerIncludes(parts, "data cid cannot be empty")
    THEN "INVALID_DATA_CID"
  ELSE "CONTRACT_REVERT"

\* errorReason of the catch block of submitFIRToBlockchain
SubmitErrorReason(message) ==
  IF message = "CONTRACT_NOT_DEPLOYED"
    THEN "Smart contract not deployed on this network"
  ELSE IF message = "FIR_ALREADY_EXISTS"
    THEN "A FIR with this ID already exists on the blockchain"
  ELSE IF message = "INVALID_FIR_ID" THEN "Invalid FIR ID provided"
  ELSE IF message = "INVALID_DATA_CID" THEN "Invalid IPFS CID provided"
  ELSE IF message = "CONTRACT_REVERT"
    THEN "Smart contract rejected the transaction"
  ELSE "Unknown error"

\* the catch block of submitFIRToBlockchain: a local record and a mock hash
SubmitCatch(message, rejected) ==
  /\ localStorage' =
       SetItem(localStorage, "fir_tx_" \o cl.firId,
               [firId |-> cl.firId, dataCID |-> cl.dataCID,
                dataHash |-> cl.dataHash, walletAddress |-> cl.wallet,
                timestamp |-> clock, status |-> "pending", mockTx |-> TRUE,
                errorReason |-> SubmitErrorReason(message)])
  /\ cl' = [cl EXCEPT
              !.pc = "done",
              !.rejected = rejected,
              !.result =
                <<"returned",
                  "0x" \o hashData(cl.firId \o cl.dataCID \o ToString(clock))>>]

\* the hash of the next transaction the ledger accepts from the client
TxHash == "0xtx" \o ToString(Len(sent) + 1)

\* submitFIRToBlockchain(firId, dataCID, dataHash, walletAddress) is called
CallSubmit(id, cid, h, w) ==
  /\ cl.pc \in {"idle", "done"}
  /\ hs.pc = "idle"
  /\ cl.n < MaxCalls
  /\ cl' = Begin("submitFIR", id, cid, h, 0, w)
  /\ UNCHANGED <<firs, events, now, ret, pool, mined>>
  /\ UNCHANGED <<clock, ipfs, localStorage, hs, sent, gen>>
  /\ UNCHANGED uvars

\* await web3.eth.getCode(FIR_CONTRACT_ADDRESS)
SubmitGetCode ==
  /\ cl.fn = "submitFIR" /\ cl.pc = "getCode"
  /\ \E o \in {"ok", "nocode", "unreachable"} :
       CASE o = "ok" -> cl' = [cl EXCEPT !.pc = "simulate"]
                        /\ UNCHANGED localStorage
         [] o = "nocode" -> SubmitCatch("CONTRACT_NOT_DEPLOYED", "")
         [] o = "unreachable" -> SubmitCatch(Text(NetworkError), "")
  /\ UNCHANGED <<firs, events, now, ret, pool, mined>>
  /\ UNCHANGED <<clock, ipfs, hs, sent, gen>>
  /\ UNCHANGED uvars

\* await contract.methods.submitFIR(...).call({ from })
SubmitSimulate ==
  /\ cl.fn = "submitFIR" /\ cl.pc = "simulate"
  /\ \E o \in {"ok", "unreachable"} :
       LET r == SubmitRequire(firs, cl.firId, cl.dataCID) IN
       CASE o = "ok" /\ r = "ok" ->
              cl' = [cl EXCEPT !.pc = "gas"] /\ UNCHANGED localStorage
         [] o = "ok" /\ r # "ok" ->
              SubmitCatch(SubmitCallError(RevertError(r)), r)
         [] o = "unreachable" ->
              SubmitCatch(SubmitCallError(NetworkError), "")
  /\ UNCHANGED <<firs, events, now, ret, pool, mined>>
  /\ UNCHANGED <<clock, ipfs, hs, sent, gen>>
  /\ UNCHANGED uvars

\* await ...estimateGas({ from }) and await web3.eth.getGasPrice()
SubmitGas ==
  /\ cl.fn = "submitFIR" /\ cl.pc = "gas"
  /\ \E o \in {"ok", "unreachable"} :
       LET r == SubmitRequire(firs, cl.firId, cl.dataCID) IN
       CASE o = "ok" /\ r = "ok" ->
              cl' = [cl EXCEPT !.pc = "send"] /\ UNCHANGED localStorage
         [] o = "ok" /\ r # "ok" -> SubmitCatch(Text(RevertError(r)), r)
         [] o = "unreachable" -> SubmitCatch(Text(NetworkError), "")
  /\ UNCHANGED <<firs, events, now, ret, pool, mined>>
  /\ UNCHANGED <<clock, ipfs, hs, sent, gen>>
  /\ UNCHANGED uvars

\* await contract.methods.submitFIR(...).send({ from, gas, ... }): the
\* transaction is mined, or it never reaches the ledger (no account to sign
\* with, the user declines, the node is unreachable)
SubmitSend ==
  /\ cl.fn = "submitFIR" /\ cl.pc = "send"
  /\ \E o \in {"mined", "failed"} :
       IF o = "mined" /\ cl.wallet # 0
         THEN /\ SubmitEffect(cl.firId, cl.dataCID, ToBytes32(cl.dataHash),
                              cl.wallet)
              /\ sent' = Append(sent, [fn |-> "submitFIR", firId |-> cl.firId,
                                       dataCID |-> cl.dataCID,
                                       reason |-> ret'.reason])
              /\ IF ret'.reason = "ok"
                   THEN /\ cl' = [cl EXCEPT !.pc = "done",
                                            !.result = <<"returned", TxHash>>]
                        /\ UNCHANGED localStorage
                   ELSE SubmitCatch(Text(RevertError(ret'.reason)),
                                    ret'.reason)
         ELSE /\ SubmitCatch("transaction failed", "")
              /\ UNCHANGED <<firs, events, ret, sent>>
  /\ UNCHANGED <<now, pool, mined>>
  /\ UNCHANGED <<clock, ipfs, hs, gen>>
  /\ UNCHANGED uvars

SubmitSteps == SubmitGetCode \/ SubmitSimulate \/ SubmitGas \/ SubmitSend

\* the errors updateFIRStatusOnBlockchain throws for a failed simulation
UpdateCallError(parts) ==
  IF LowerIncludes(parts, "fir does not exist") THEN "FIR_NOT_FOUND"
  ELSE IF LowerIncludes(parts, "invalid status") THEN "INVALID_STATUS"
  ELSE "CONTRACT_REVERT"

\* the catch block of updateFIRStatusOnBlockchain: the error is thrown on
UpdateThrown(message) ==
  IF message = "CONTRACT_NOT_DEPLOYED"
    THEN "Smart contract not deployed on this network"
  ELSE IF message = "FIR_NOT_FOUND" THEN "FIR not found on blockchain"
  ELSE IF message = "INVALID_STATUS" THEN "Invalid status value"
  ELSE IF message = "CONTRACT_REVERT"
    THEN "Smart contract rejected the transaction"
  ELSE message

\* updateFIRStatusOnBlockchain ends by throwing
UpdateCatch(message, rejected) ==
  cl' = [cl EXCEPT !.pc = "done", !.rejected = rejected,
                   !.result = <<"thrown", UpdateThrown(message)>>]

\* updateFIRStatusOnBlockchain(firId, newStatus, walletAddress) is called;
\* the two input checks come before the try block
UpdateEntry(id, s, w) ==
  IF id = ""
    THEN [Begin("updateFIRStatus", id, "", "", s, w) EXCEPT
            !.pc = "done", !.result = <<"thrown", "FIR ID is required">>]
  ELSE IF w = 0
    THEN [Begin("updateFIRStatus", id, "", "", s, w) EXCEPT
            !.pc = "done",
            !.result = <<"thrown", "Wallet address is required">>]
  ELSE Begin("updateFIRStatus", id, "", "", s, w)

\* a caller other than the pages calls updateFIRStatusOnBlockchain
CallUpdate(id, s, w) ==
  /\ cl.pc \in {"idle", "done"}
  /\ hs.pc = "idle"
  /\ cl.n < MaxCalls
  /\ cl' = UpdateEntry(id, s, w)
  /\ UNCHANGED <<firs, events, now, ret, pool, mined>>
  /\ UNCHANGED <<clock, ipfs, localStorage, hs, sent, gen>>
  /\ UNCHANGED uvars

\* await web3.eth.getCode(FIR_CONTRACT_ADDRESS), then the range check
UpdateGetCode ==
  /\ cl.fn = "updateFIRStatus" /\ cl.pc = "getCode"
  /\ \E o \in {"ok", "nocode", "unreachable"} :
       CASE o = "ok" /\ ~(cl.status < 0 \/ cl.status > 2) ->
              cl' = [cl EXCEPT !.pc = "simulate"]
         [] o = "ok" /\ (cl.status < 0 \/ cl.status > 2) ->
              UpdateCatch("INVALID_STATUS", "")
         [] o = "nocode" -> UpdateCatch("CONTRACT_NOT_DEPLOYED", "")
         [] o = "unreachable" -> UpdateCatch(Text(NetworkError), "")
  /\ UNCHANGED <<firs, events, now, ret, pool, mined>>
  /\ UNCHANGED <<clock, ipfs, localStorage, hs, sent, gen>>
  /\ UNCHANGED uvars

\* await contract.methods.updateFIRStatus(...).call({ from })
UpdateSimulate ==
  /\ cl.fn = "updateFIRStatus" /\ cl.pc = "simulate"
  /\ \E o \in {"ok", "unreachable"} :
       LET r == UpdateRequire(firs, cl.firId, cl.status) IN
       CASE o = "ok" /\ r = "ok" -> cl' = [cl EXCEPT !.pc = "gas"]
         [] o = "ok" /\ r # "ok" ->
              UpdateCatch(UpdateCallError(RevertError(r)), r)
         [] o = "unreachable" -> UpdateCatch(UpdateCallError(NetworkError), "")
  /\ UNCHANGED <<firs, events, now, ret, pool, mined>>
  /\ UNCHANGED <<clock, ipfs, localStorage, hs, sent, gen>>
  /\ UNCHANGED uvars

\* await ...estimateGas({ from }) and await web3.eth.getGasPrice()
UpdateGas ==
  /\ cl.fn = "updateFIRStatus" /\ cl.pc = "gas"
  /\ \E o \in {"ok", "unreachable"} :
       LET r == UpdateRequire(firs, cl.firId, cl.status) IN
       CASE o = "ok" /\ r = "ok" -> cl' = [cl EXCEPT !.pc = "send"]
         [] o = "ok" /\ r # "ok" -> UpdateCatch(Text(RevertError(r)), r)
         [] o = "unreachable" -> UpdateCatch(Text(NetworkError), "")
  /\ UNCHANGED <<firs, events, now, ret, pool, mined>>
  /\ UNCHANGED <<clock, ipfs, localStorage, hs, sent, gen>>
  /\ UNCHANGED uvars

\* await contract.methods.updateFIRStatus(...).send({ from, gas, ... })
UpdateSend ==
  /\ cl.fn = "updateFIRStatus" /\ cl.pc = "send"
  /\ \E o \in {"mined", "failed"} :
       IF o = "mined"
         THEN /\ UpdateEffect(cl.firId, cl.status, cl.wallet)
              /\ sent' = Append(sent, [fn |-> "updateFIRStatus",
                                       firId |-> cl.firId, dataCID |-> "",
                                       reason |-> ret'.reason])
              /\ IF ret'.reason = "ok"
                   THEN cl' = [cl EXCEPT !.pc = "done",
                                         !.result = <<"returned", TxHash>>]
                   ELSE UpdateCatch(Text(RevertError(ret'.reason)),
                                    ret'.reason)
         ELSE /\ UpdateCatch("transaction failed", "")
              /\ UNCHANGED <<firs, events, ret, sent>>
  /\ UNCHANGED <<now, pool, mined>>
  /\ UNCHANGED <<clock, ipfs, localStorage, hs, gen>>
  /\ UNCHANGED uvars

UpdateSteps == UpdateGetCode \/ UpdateSimulate \/ UpdateGas \/ UpdateSend

\* the client's calls, with other callers' transactions in between
ClientNext ==
  \/ \E id \in FirIds, cid \in ClientCIDs, h \in ClientHashes,
          w \in ClientWallets :
       CallSubmit(id, cid, h, w)
  \/ SubmitGetCode
  \/ SubmitSimulate
  \/ SubmitGas
  \/ SubmitSend
  \/ \E id \in FirIds, s \in StatusArgs, w \in ClientWallets :
       CallUpdate(id, s, w)
  \/ UpdateGetCode
  \/ UpdateSimulate
  \/ UpdateGas
  \/ UpdateSend
  \/ \E id \in FirIds \ {""} : SubmitFIR(id, OtherCID, OtherHash, OtherCaller)
  \/ \E id \in FirIds \ {""}, s \in Statuses :
       UpdateFIRStatus(id, s, OtherCaller)

SpecClient == Init /\ [][ClientNext]_vars



(***************************************************************************)
(* Properties of the registry                                              *)
(***************************************************************************)
\* the fields of a record that registration writes and nothing else may touch
Written(f, id) ==
  <<f[id].dataCID, f[id].dataHash, f[id].timestamp, f[id].submitter>>

\* C1: for a non-empty identifier that is not registered and a non-empty
\* locator, submitFIR(id, cid, h) by caller c at ledger time now succeeds and
\* getFIR(id) then returns exactly (cid, h, Pending, now, c).
C1_SubmitThenGet ==
  [][\A id \in FirIds, cid \in DataCIDs, h \in DataHashes, c \in Callers :
       (id # "" /\ cid # "" /\ ~firs[id].exists /\ SubmitFIR(id, cid, h, c))
         => /\ ret'.reason = "ok"
            /\ getFIR(firs', id)
                 = Outcome("getFIR", "ok", <<cid, h, Pending, now, c>>)]_vars

\* a registration has just committed and the record reads back as Pending
C1_Witness ==
  /\ ret = Outcome("submitFIR", "ok", <<>>)
  /\ Len(events) > 0
  /\ LET e == events[Len(events)] IN
       /\ e.name = "FIRSubmitted"
       /\ getFIR(firs, e.firId).value
            = <<e.dataCID, 1, Pending, now, e.submitter>>

\* C2: submitFIR with an identifier that is already registered, with any
\* locator, digest and caller, is rejected with "FIR already exists" and the
\* stored record is the same after the call as before it.
C2_DuplicateRejected ==
  [][\A id \in FirIds, cid \in DataCIDs, h \in DataHashes, c \in Callers :
       (firs[id].exists /\ SubmitFIR(id, cid, h, c))
         => /\ ret'.reason = "FIR already exists"
            /\ firs'[id] = firs[id]
            /\ getFIR(firs', id) = getFIR(firs, id)]_vars

\* a duplicate registration has just been rejected
C2_Witness ==
  /\ ret = Outcome("submitFIR", "FIR already exists", <<>>)
  /\ \E id \in FirIds : firs[id].exists

\* C3: a registered identifier stays registered (getFIR never goes back to
\* "FIR does not exist"), and a record comes into existence only by a
\* successful submitFIR for that identifier.
C3_NeverDestroyed ==
  [][\A id \in FirIds :
       /\ getFIR(firs, id).reason = "ok" => getFIR(firs', id).reason = "ok"
       /\ (~firs[id].exists /\ firs'[id].exists)
            => /\ ret'.reason = "ok"
               /\ \E cid \in DataCIDs, h \in DataHashes, c \in Callers :
                    SubmitFIR(id, cid, h, c)]_vars

\* a record that has lived through a status update and a rejected duplicate
C3_Witness ==
  /\ \E id \in FirIds : firs[id].exists /\ firs[id].status = Closed
  /\ ret = Outcome("submitFIR", "FIR already exists", <<>>)
  /\ Len(events) >= 2

\* C4: locator, digest, timestamp and submitter of a registered record are
\* the values written at registration: a successful submitFIR writes its
\* arguments, the ledger time and the caller, and no later step of any
\* operation by any caller changes them.
C4_WrittenOnce ==
  [][\A id \in FirIds :
       /\ \A cid \in DataCIDs, h \in DataHashes, c \in Callers :
            (SubmitFIR(id, cid, h, c) /\ ret'.reason = "ok")
              => Written(firs', id) = <<cid, h, now, c>>
       /\ firs[id].exists => Written(firs', id) = Written(firs, id)]_vars

\* a record registered in an earlier block whose status has been changed
C4_Witness ==
  \E id \in FirIds :
    /\ firs[id].exists
    /\ firs[id].timestamp < now
    /\ firs[id].status # Pending
    /\ firs[id].dataHash # 0

\* C5: for a registered identifier and newStatus in {0,1,2}, updateFIRStatus
\* succeeds, getFIR then returns newStatus, and locator, digest, timestamp
\* and submitter are what they were before the call.
C5_UpdateWritesStatusOnly ==
  [][\A id \in FirIds, s \in Statuses, c \in Callers :
       (firs[id].exists /\ UpdateFIRStatus(id, s, c))
         => /\ ret'.reason = "ok"
            /\ getFIR(firs', id)
                 = Outcome("getFIR", "ok",
                           <<firs[id].dataCID, firs[id].dataHash, s,
                             firs[id].timestamp, firs[id].submitter>>)]_vars

\* a status update has just committed on a record with a non-default digest
C5_Witness ==
  /\ ret = Outcome("updateFIRStatus", "ok", <<>>)
  /\ Len(events) > 0
  /\ LET e == events[Len(events)] IN
       /\ e.name = "FIRStatusUpdated"
       /\ firs[e.firId].status = e.status
       /\ e.status = UnderInvestigation
       /\ firs[e.firId].dataHash # 0

\* C6: for an identifier that is not registered, updateFIRStatus (with any
\* status) and getFIR are rejected with "FIR does not exist"; records and
\* event log are unchanged.
C6_UnknownRejected ==
  [][\A id \in FirIds :
       ~firs[id].exists
         => /\ \A s \in StatusArgs, c \in Callers :
                 UpdateFIRStatus(id, s, c)
                   => /\ ret'.reason = "FIR does not exist"
                      /\ UNCHANGED <<firs, events>>
            /\ GetFIR(id)
                 => /\ ret' = Outcome("getFIR", "FIR does not exist", <<>>)
                    /\ UNCHANGED <<firs, events>>]_vars

\* an update of an identifier that is not registered has just been rejected,
\* in a later block, and the registry and the log are still empty
C6_Witness ==
  /\ ret = Outcome("updateFIRStatus", "FIR does not exist", <<>>)
  /\ \E id \in FirIds : id # "" /\ ~firs[id].exists
  /\ events = <<>>
  /\ now > 1

\* C7: for a registered identifier, updateFIRStatus with a status outside
\* {0,1,2} is rejected with "Invalid status"; the record's status is
\* unchanged and no FIRStatusUpdated event is emitted.
C7_InvalidStatusRejected ==
  [][\A id \in FirIds, s \in StatusArgs \ Statuses, c \in Callers :
       (firs[id].exists /\ UpdateFIRStatus(id, s, c))
         => /\ ret'.reason = "Invalid status"
            /\ firs'[id].status = firs[id].status
            /\ events' = events]_vars

\* an out-of-range status has just been rejected on a record under
\* investigation
C7_Witness ==
  /\ ret = Outcome("updateFIRStatus", "Invalid status", <<>>)
  /\ \E id \in FirIds : firs[id].exists /\ firs[id].status = UnderInvestigation

\* C8: submitFIR with an empty identifier is rejected with "FIR ID cannot be
\* empty"; submitFIR with a non-empty unregistered identifier and an empty
\* locator is rejected with "Data CID cannot be empty"; neither creates a
\* record nor emits an event.
C8_EmptyArgumentsRejected ==
  [][\A id \in FirIds, cid \in DataCIDs, h \in DataHashes, c \in Callers :
       /\ (id = "" /\ SubmitFIR(id, cid, h, c))
            => /\ ret'.reason = "FIR ID cannot be empty"
               /\ UNCHANGED <<firs, events>>
       /\ (id # "" /\ ~firs[id].exists /\ cid = "" /\ SubmitFIR(id, cid, h, c))
            => /\ ret'.reason = "Data CID cannot be empty"
               /\ UNCHANGED <<firs, events>>]_vars

\* an empty identifier has just been rejected by a registry that holds records
C8_Witness ==
  /\ ret = Outcome("submitFIR", "FIR ID cannot be empty", <<>>)
  /\ \E id \in FirIds : firs[id].exists

\* a submitFIR transaction whose arguments pass the two length checks
ValidSubmit(tx) == tx.firId # "" /\ tx.dataCID # ""

C10_AnyTransition ==
  [][\A s \in Statuses, s2 \in Statuses :
       \A id \in FirIds, c \in Callers :
         (firs[id].exists /\ firs[id].status = s /\ UpdateFIRStatus(id, s2, c))
           => /\ ret'.reason = "ok"
              /\ firs'[id].status = s2
              /\ events' = Append(events, FIRStatusUpdated(id, s2))]_vars

\* a Closed record has been re-opened: Closed, then Pending, on one identifier
C10_Witness ==
  /\ ret = Outcome("updateFIRStatus", "ok", <<>>)
  /\ Len(events) >= 3
  /\ LET n == Len(events) IN
       /\ events[n - 1] = FIRStatusUpdated(events[n].firId, Closed)
       /\ events[n] = FIRStatusUpdated(events[n].firId, Pending)
       /\ firs[events[n].firId].status = Pending

\* C11: the outcome of updateFIRStatus(id, s) and the registry state after it
\* do not depend on the caller: a step that is updateFIRStatus(id, s) by one
\* caller is also the step updateFIRStatus(id, s) by every other caller, so
\* two runs that differ in the caller only end in the same state.
C11_CallerIndependent ==
  [][\A id \in FirIds, s \in StatusArgs, c \in Callers :
       UpdateFIRStatus(id, s, c)
         => \A c2 \in Callers : UpdateFIRStatus(id, s, c2)]_vars

\* a record submitted by caller 1 has been closed by an update
C11_Witness ==
  /\ ret = Outcome("updateFIRStatus", "ok", <<>>)
  /\ \E id \in FirIds :
       /\ firs[id].exists
       /\ firs[id].submitter = 1
       /\ firs[id].status = Closed
       /\ events[Len(events)] = FIRStatusUpdated(id, Closed)

SubmittedAt(id) ==
  {i \in 1..Len(events) :
     events[i].name = "FIRSubmitted" /\ events[i].firId = id}

\* positions of the FIRStatusUpdated events of an identifier
UpdatedAt(id) ==
  {i \in 1..Len(events) :
     events[i].name = "FIRStatusUpdated" /\ events[i].firId = id}

\* the status of an identifier as the log tells it
LoggedStatus(id) ==
  IF UpdatedAt(id) = {} THEN Pending
  ELSE events[CHOOSE i \in UpdatedAt(id) : \A j \in UpdatedAt(id) : j <= i].status

C14_GetIsPure ==
  [][\A id \in FirIds :
       GetFIR(id) => (firs' = firs /\ events' = events /\ now' = now)]_vars

\* a read has just returned a record registered in an earlier block
C14_Witness ==
  /\ ret.op = "getFIR"
  /\ ret.reason = "ok"
  /\ \E id \in FirIds :
       /\ firs[id].exists
       /\ firs[id].timestamp < now
       /\ ret.value = GetReturn(firs, id)

\* C15 as stated: a rejection with "FIR already exists" (submitFIR) or with
\* "FIR does not exist" (updateFIRStatus, getFIR) is met again whenever the
\* same call is repeated, after any intervening operations.
C15_NotRetryable ==
  [][\A id \in FirIds :
       /\ \A cid \in DataCIDs :
            SubmitRequire(firs, id, cid) = "FIR already exists"
              => SubmitRequire(firs', id, cid) = "FIR already exists"
       /\ GetRequire(firs, id) = "FIR does not exist"
            => GetRequire(firs', id) = "FIR does not exist"
       /\ \A s \in StatusArgs :
            UpdateRequire(firs, id, s) = "FIR does not exist"
              => UpdateRequire(firs', id, s) = "FIR does not exist"]_vars

\* C15, amended: "FIR already exists" is met again after any operations;
\* "FIR does not exist" is met again after every step that is not a committed
\* submitFIR of that identifier.
C15_NotRetryableUntilRegistered ==
  [][\A id \in FirIds :
       /\ \A cid \in DataCIDs :
            SubmitRequire(firs, id, cid) = "FIR already exists"
              => SubmitRequire(firs', id, cid) = "FIR already exists"
       /\ (/\ GetRequire(firs, id) = "FIR does not exist"
           /\ ~(/\ ret'.reason = "ok"
                 /\ \E cid \in DataCIDs, h \in DataHashes, c \in Callers :
                      SubmitFIR(id, cid, h, c)))
            => /\ GetRequire(firs', id) = "FIR does not exist"
               /\ \A s \in StatusArgs :
                    UpdateRequire(firs', id, s) = "FIR does not exist"]_vars

\* a duplicate was rejected, the record was then updated, and the duplicate
\* is still rejected
C15_Witness ==
  /\ ret = Outcome("updateFIRStatus", "ok", <<>>)
  /\ \E id \in FirIds, cid \in DataCIDs :
       /\ firs[id].status # Pending
       /\ cid # firs[id].dataCID
       /\ SubmitRequire(firs, id, cid) = "FIR already exists"
  /\ GetRequire(firs, "") = "FIR does not exist"



(***************************************************************************)
(* Properties of the client's calls                                        *)
(***************************************************************************)
\* the messages that tell a caller which precondition of the registry failed
Naming(reason) ==
  CASE reason = "FIR already exists" ->
         {"A FIR with this ID already exists on the blockchain",
          Text(RevertError(reason))}
    [] reason = "FIR does not exist" ->
         {"FIR not found on blockchain", Text(RevertError(reason))}
    [] reason = "Invalid status" ->
         {"Invalid status value", Text(RevertError(reason))}
    [] OTHER -> {Text(RevertError(reason))}

\* C17: whenever the registry rejects the register or update-status call of
\* the client, the client's function ends by throwing to its caller an error
\* that names the failed precondition, and never by returning a result.
C17_RejectionSurfaces ==
  (cl.pc = "done" /\ cl.rejected # "") =>
    /\ cl.result[1] = "thrown"
    /\ cl.result[2] \in Naming(cl.rejected)

\* C18: the client writes the record fir_tx_<firId> only when the call failed
\* for a reason other than a rejection by the registry, and every record it
\* holds is marked mockTx.
C18_FallbackOnlyForInfrastructure ==
  [][/\ localStorage' # localStorage => cl'.rejected = ""
     /\ \A e \in localStorage' : e.value.mockTx]_vars

(***************************************************************************)
(* FIRSubmission.tsx: handleSubmit.  A JSON object is the sequence of its  *)
(* entries <<key, value>> in insertion order; the content store keeps the  *)
(* objects pinned to it under the identifier of their content.             *)
(***************************************************************************)
\* formData as the user filled it in: incidentType starts as 'theft'
Forms == {"theft"}

\* account || ''
WalletText(w) == IF w = 0 THEN "" ELSE "0xA" \o ToString(w)

\* new Date().toISOString()
ISOString(t) == "T" \o ToString(t)

\* firDataForIPFS
FirData(form, w, t) ==
  << <<"incidentType", form>>, <<"walletAddress", WalletText(w)>>,
     <<"createdAt", ISOString(t)>>, <<"status", "pending">> >>

\* the members of a JSON array or object, separated by commas
RECURSIVE Join(_)
Join(texts) ==
  IF texts = <<>> THEN ""
  ELSE IF Len(texts) = 1 THEN texts[1]
  ELSE texts[1] \o "," \o Join(Tail(texts))

\* JSON.stringify of an array of strings
StringifyArray(a) == "[" \o Join(a) \o "]"

\* JSON.stringify of an object
Stringify(obj) ==
  "{" \o Join([i \in 1..Len(obj) |-> obj[i][1] \o ":" \o obj[i][2]]) \o "}"

\* { ...firDataForIPFS, evidenceFiles: fileCIDs }
WithEvidence(obj, fileCIDs) ==
  Append(obj, <<"evidenceFiles", StringifyArray(fileCIDs)>>)

\* the identifier the content store gives a pinned object
Cid(obj) == "Qm(" \o Stringify(obj) \o ")"

\* the i-th evidence file
File(i) == << <<"file", ToString(i)>> >>

\* an object pinned in the content store
Pin(obj) == [cid |-> Cid(obj), content |-> obj]

\* fetchFromIPFS(cid): the object the gateway returns
fetchFromIPFS(cid) == (CHOOSE e \in ipfs : e.cid = cid).content

\* generateFIRId without the timestamp
generateFIRId_NoTimestamp(data, timestamp) == Sha256(Stringify(data))

\* generateFIRId(data), with timestamp the value Date.now() returns
generateFIRId(data, timestamp) ==
  Sha256(Stringify(data) \o ToString(timestamp))

\* the identifiers handleSubmit can generate within MaxClock
GeneratedIds ==
  {generateFIRId(FirData(f, w, c), t) :
     f \in Forms, w \in ClientWallets, c \in 1..MaxClock, t \in 1..MaxClock}

\* handleSubmit ends in its catch block: toast.error, setLoading(false)
Failed(message) == [IdleSubmit EXCEPT !.toast = message]

\* the submit button is pressed: the sign-in and wallet checks, then
\* firDataForIPFS is built
HandleSubmit(form, files, w, o) ==
  /\ hs.pc = "idle"
  /\ cl.pc \in {"idle", "done"}
  /\ cl.n < MaxCalls
  /\ hs' = CASE o = "signedOut" -> Failed("Please sign in to submit FIR")
             [] o = "connectFailed" -> Failed("Please connect your wallet first")
             [] OTHER ->
                  [pc |-> IF files > 0 THEN "files" ELSE "upload",
                   files |-> files, wallet |-> w,
                   data |-> FirData(form, w, clock),
                   fileCIDs |-> <<>>, dataCID |-> "", firId |-> "",
                   dataHash |-> "", toast |-> "Submitting FIR to blockchain..."]
  /\ UNCHANGED <<firs, events, now, ret, pool, mined>>
  /\ UNCHANGED <<clock, ipfs, localStorage, cl, sent, gen>>
  /\ UNCHANGED uvars

\* fileCIDs = await uploadMultipleFilesToIPFS(files): every file is pinned,
\* or one upload fails after some of the others were pinned
UploadFiles ==
  /\ hs.pc = "files"
  /\ \E o \in {"ok", "failed"} :
       IF o = "ok"
         THEN /\ ipfs' = ipfs \cup {Pin(File(i)) : i \in 1..hs.files}
              /\ hs' = [hs EXCEPT
                          !.fileCIDs = [i \in 1..hs.files |-> Cid(File(i))],
                          !.pc = "upload"]
         ELSE /\ \E k \in 0..(hs.files - 1) :
                   ipfs' = ipfs \cup {Pin(File(i)) : i \in 1..k}
              /\ hs' = Failed("Failed to upload file to IPFS")
  /\ UNCHANGED <<firs, events, now, ret, pool, mined>>
  /\ UNCHANGED <<clock, localStorage, cl, sent, gen>>
  /\ UNCHANGED uvars

\* uploadToIPFS swallowing its failure and handleSubmit going on
UploadData_SwallowFailure ==
  /\ hs.pc = "upload"
  /\ \E o \in {"ok", "failed"} :
       LET content == WithEvidence(hs.data, hs.fileCIDs)
           dataCID == IF o = "ok" THEN Cid(content) ELSE ""
           firId == generateFIRId(hs.data, clock)
           dataHash == hashData(Stringify(hs.data))
       IN /\ ipfs' = IF o = "ok" THEN ipfs \cup {Pin(content)} ELSE ipfs
          /\ hs' = [hs EXCEPT !.pc = "registry", !.dataCID = dataCID,
                              !.firId = firId, !.dataHash = dataHash]
          /\ gen' = Append(gen, [data |-> hs.data, t |-> clock, id |-> firId])
          /\ cl' = Begin("submitFIR", firId, dataCID, dataHash, 0, hs.wallet)
  /\ UNCHANGED <<firs, events, now, ret, pool, mined>>
  /\ UNCHANGED <<clock, localStorage, sent>>
  /\ UNCHANGED uvars

\* dataCID = await uploadToIPFS({ ...firDataForIPFS, evidenceFiles }), then
\* generateFIRId, hashData and the call of submitFIRToBlockchain
UploadData ==
  /\ hs.pc = "upload"
  /\ \E o \in {"ok", "failed"} :
       LET content == WithEvidence(hs.data, hs.fileCIDs)
           dataCID == Cid(content)
           firId == generateFIRId(hs.data, clock)
           dataHash == hashData(Stringify(hs.data))
       IN IF o = "ok"
            THEN /\ ipfs' = ipfs \cup {Pin(content)}
                 /\ hs' = [hs EXCEPT !.pc = "registry", !.dataCID = dataCID,
                                     !.firId = firId, !.dataHash = dataHash]
                 /\ gen' = Append(gen, [data |-> hs.data, t |-> clock,
                                        id |-> firId])
                 /\ cl' = Begin("submitFIR", firId, dataCID, dataHash, 0,
                                hs.wallet)
            ELSE /\ hs' = Failed("Failed to upload data to IPFS")
                 /\ UNCHANGED <<ipfs, gen, cl>>
  /\ UNCHANGED <<firs, events, now, ret, pool, mined>>
  /\ UNCHANGED <<clock, localStorage, sent>>
  /\ UNCHANGED uvars

\* submitFIRToBlockchain has returned or thrown: the toast, setLoading(false)
HandleReturn ==
  /\ hs.pc = "registry"
  /\ cl.pc = "done"
  /\ hs' = [hs EXCEPT !.pc = "idle",
                      !.toast = IF cl.result[1] = "returned"
                                  THEN "FIR submitted successfully!"
                                  ELSE cl.result[2]]
  /\ UNCHANGED <<firs, events, now, ret, pool, mined>>
  /\ UNCHANGED <<clock, ipfs, localStorage, cl, sent, gen>>
  /\ UNCHANGED uvars

\* time passes in the browser
Tick ==
  /\ clock < MaxClock
  /\ clock' = clock + 1
  /\ UNCHANGED <<firs, events, now, ret, pool, mined>>
  /\ UNCHANGED <<ipfs, localStorage, cl, hs, sent, gen>>
  /\ UNCHANGED uvars

\* the registry as handleSubmit meets it: none of its identifiers registered
SubmitInit ==
  /\ firs = [id \in GeneratedIds |-> DefaultFIR]
  /\ events = <<>>
  /\ now = 1
  /\ ret = Outcome("deploy", "ok", <<>>)
  /\ pool = {}
  /\ mined = <<>>
  /\ ClientInit

SubmitNext ==
  \/ \E form \in Forms, files \in 0..MaxFiles, w \in ClientWallets,
        o \in {"signedOut", "connectFailed", "go"} :
       HandleSubmit(form, files, w, o)
  \/ UploadFiles
  \/ UploadData
  \/ SubmitGetCode
  \/ SubmitSimulate
  \/ SubmitGas
  \/ SubmitSend
  \/ HandleReturn
  \/ Tick

SpecSubmit == SubmitInit /\ [][SubmitNext]_vars

(***************************************************************************)
(* Properties of handleSubmit                                              *)
(***************************************************************************)
\* C16: for every FIR that handleSubmit registered, the digest recomputed
\* over the content fetched through the registered locator equals the digest
\* stored in the registry.
C16_FetchedContentMatchesDigest ==
  \A id \in DOMAIN firs :
    firs[id].exists =>
      /\ \E e \in ipfs : e.cid = firs[id].dataCID
      /\ ToBytes32(hashData(Stringify(fetchFromIPFS(firs[id].dataCID))))
           = firs[id].dataHash

\* C19: submitFIRToBlockchain is called only when uploadToIPFS and every
\* evidence-file upload have returned, and with the locator uploadToIPFS
\* returned; a failed upload ends handleSubmit with no call, no registry
\* write and no fallback record; registry writes and fallback records happen
\* only after the uploads.
C19_UploadBeforeRegistryWrite ==
  [][/\ cl'.n # cl.n =>
          /\ hs.pc = "upload"
          /\ Len(hs.fileCIDs) = hs.files
          /\ \A i \in 1..hs.files : \E e \in ipfs : e.cid = hs.fileCIDs[i]
          /\ \E e \in ipfs' :
               /\ e.cid = cl'.dataCID
               /\ e.content = WithEvidence(hs.data, hs.fileCIDs)
     /\ (hs.pc \in {"files", "upload"} /\ hs'.pc = "idle") =>
          UNCHANGED <<cl, localStorage, sent, firs, events>>
     /\ (sent' # sent \/ localStorage' # localStorage) =>
          hs.pc = "registry"]_vars

\* one submission with an evidence file was registered, and the next one
\* ended at its failed upload with nothing written
C19_Witness ==
  /\ hs.pc = "idle"
  /\ hs.toast = "Failed to upload data to IPFS"
  /\ \E e \in ipfs : e.content = File(1)
  /\ Len(sent) = 1
  /\ sent[1].reason = "ok"
  /\ cl.n = 1
  /\ localStorage = {}

\* C20: generateFIRId gives the same identifier for the same content and
\* timestamp and different identifiers for the same content at different
\* timestamps, so handleSubmit is rejected with 'FIR already exists' only
\* when the same content was submitted before at the same timestamp.
C20_FreshTimestampFreshId ==
  /\ \A i, j \in 1..Len(gen) :
       gen[i].data = gen[j].data =>
         (gen[i].t = gen[j].t <=> gen[i].id = gen[j].id)
  /\ (hs.pc = "registry" /\ cl.rejected = "FIR already exists") =>
       \E i \in 1..(Len(gen) - 1) :
         /\ gen[i].data = gen[Len(gen)].data
         /\ gen[i].t = gen[Len(gen)].t

\* the same content was submitted at two timestamps and registered twice
C20_Witness ==
  \E i, j \in 1..Len(gen) :
    /\ gen[i].data = gen[j].data
    /\ gen[i].t # gen[j].t
    /\ firs[gen[i].id].exists
    /\ firs[gen[j].id].exists
    /\ cl.pc = "done"
    /\ cl.rejected = ""

(***************************************************************************)
(* The registry with two identifiers in use                                *)
(***************************************************************************)
\* string _firId: the empty string and two non-empty ones
PairIds == FirIds \cup {"FIR-002"}
\* string _dataCID in the runs with two identifiers
PairCIDs == {"", "bafy-abc"}

PairInit ==
  /\ firs = [id \in PairIds |-> DefaultFIR]
  /\ events = <<>>
  /\ now = 1
  /\ ret = Outcome("deploy", "ok", <<>>)
  /\ pool = {}
  /\ mined = <<>>
  /\ ClientInit

PairNext ==
  \/ \E id \in PairIds, cid \in PairCIDs : SubmitFIR(id, cid, 0, 1)
  \/ \E id \in PairIds, s \in StatusArgs : UpdateFIRStatus(id, s, 1)
  \/ NewBlock

SpecPair == PairInit /\ [][PairNext]_vars

\* C24: every record the registry holds has a non-empty identifier, a
\* non-empty locator and a status among Pending, UnderInvestigation, Closed.
C24_RecordsWellFormed ==
  \A id \in DOMAIN firs :
    firs[id].exists =>
      /\ id # ""
      /\ firs[id].dataCID # ""
      /\ firs[id].status \in Statuses

\* a record was registered and closed, after rejected attempts
C24_Witness ==
  /\ \E id \in FirIds : firs[id].exists /\ firs[id].status = Closed
  /\ ret.reason # "ok"
  /\ Len(events) = 2

\* C28: submitFIR(id, ...) and updateFIRStatus(id, ...), committed or
\* rejected, leave the record of every identifier other than id as it was.
C28_OtherIdentifiersUntouched ==
  [][\A id \in PairIds :
       ((\E cid \in PairCIDs : SubmitFIR(id, cid, 0, 1))
          \/ (\E s \in StatusArgs : UpdateFIRStatus(id, s, 1)))
         => \A other \in PairIds \ {id} : firs'[other] = firs[other]]_vars

\* both identifiers are registered, one was just closed and the other is
\* still pending
C28_Witness ==
  /\ ret = Outcome("updateFIRStatus", "ok", <<>>)
  /\ firs["FIR-001"].exists /\ firs["FIR-001"].status = Closed
  /\ firs["FIR-002"].exists /\ firs["FIR-002"].status = Pending

\* C29: submitFIR with a registered identifier and an empty locator is
\* rejected with "FIR already exists"; submitFIR with an empty identifier and
\* an empty locator with "FIR ID cannot be empty"; updateFIRStatus with an
\* unregistered identifier and an out-of-range status with "FIR does not
\* exist".
C29_ReasonPrecedence ==
  [][/\ \A id \in FirIds, h \in DataHashes, c \in Callers :
          SubmitFIR(id, "", h, c) =>
            /\ firs[id].exists => ret'.reason = "FIR already exists"
            /\ id = "" => ret'.reason = "FIR ID cannot be empty"
     /\ \A id \in FirIds, s \in StatusArgs \ Statuses, c \in Callers :
          (~firs[id].exists /\ UpdateFIRStatus(id, s, c))
            => ret'.reason = "FIR does not exist"]_vars

\* a submission was just rejected as a duplicate of a closed record, in the
\* last block
C29_Witness ==
  /\ ret = Outcome("submitFIR", "FIR already exists", <<>>)
  /\ \E id \in FirIds : firs[id].exists /\ firs[id].status = Closed
  /\ now = MaxTime

\* C25: updateFIRStatusOnBlockchain throws for an empty firId or wallet
\* address before any step on the ledger; a status outside 0..2 ends in
\* 'Invalid status value' with no transaction sent; the transaction is sent
\* only after the simulated call succeeded; it never writes localStorage.
C25_UpdateValidatesFirst ==
  [][/\ \A id \in FirIds, s \in StatusArgs, w \in ClientWallets :
          (CallUpdate(id, s, w) /\ (id = "" \/ w = 0)) =>
            /\ cl'.pc = "done"
            /\ cl'.result[1] = "thrown"
     /\ (cl.fn = "updateFIRStatus" /\ cl.pc \notin {"idle", "done"}) =>
          /\ (cl'.pc = "done" /\ cl.status \notin Statuses) =>
               /\ cl'.result = <<"thrown", "Invalid status value">>
               /\ sent' = sent
          /\ sent' # sent => cl.pc = "send"
          /\ (cl'.pc = "send" /\ cl.pc # "send") => cl.pc = "gas"
          /\ (cl'.pc = "gas" /\ cl.pc # "gas") =>
               cl.pc = "simulate"
                 /\ UpdateRequire(firs, cl.firId, cl.status) = "ok"
          /\ localStorage' = localStorage]_vars

(***************************************************************************)
(* useWeb3: the wallet hook.  The state updates a handler makes between    *)
(* two awaits are committed together.                                      *)
(***************************************************************************)
\* the lists of accounts the wallet may expose to the page
AccountLists == {<<>>, <<1>>, <<2>>, <<1, 2>>, <<2, 1>>}

\* connect() is called: setIsConnecting(true), then connectWallet() runs
Connect ==
  /\ w3.connects < MaxConnects
  /\ w3' = [w3 EXCEPT !.isConnecting = TRUE, !.connects = @ + 1]
  /\ UNCHANGED <<firs, events, now, ret, pool, mined>>
  /\ UNCHANGED <<clock, ipfs, localStorage, cl, hs, sent, gen>>
  /\ UNCHANGED <<auth, dash, sc, height, minedAt>>

\* what connect() does to the hook when connectWallet() has settled: with
\* the accounts eth_requestAccounts returned, or with an error (no wallet
\* installed, the user declines, the network switch fails)
ConnectSettled(w, accounts) ==
  IF accounts # <<>>
    THEN [w EXCEPT !.account = accounts[1], !.isConnected = TRUE,
                   !.granted = accounts,
                   !.toast = "Wallet connected successfully!",
                   !.isConnecting = FALSE, !.connects = @ - 1]
    ELSE [w EXCEPT !.toast = "Failed to connect wallet",
                   !.isConnecting = FALSE, !.connects = @ - 1]

\* connectWallet() settles and connect() runs to its end
ConnectResolve ==
  /\ w3.connects > 0
  /\ \E accounts \in AccountLists :
       /\ accounts # <<>> => w3.ethereum
       /\ (accounts # <<>> /\ w3.granted # <<>>) => accounts = w3.granted
       /\ w3' = ConnectSettled(w3, accounts)
  /\ UNCHANGED <<firs, events, now, ret, pool, mined>>
  /\ UNCHANGED <<clock, ipfs, localStorage, cl, hs, sent, gen>>
  /\ UNCHANGED <<auth, dash, sc, height, minedAt>>

\* disconnect that leaves isConnected as it is
Disconnected_KeepFlag(w) ==
  [w EXCEPT !.account = 0, !.toast = "Wallet disconnected"]

\* disconnect(): setAccount(null), setWeb3(null), setIsConnected(false)
Disconnected(w) ==
  [w EXCEPT !.account = 0, !.isConnected = FALSE,
            !.toast = "Wallet disconnected"]

Disconnect ==
  /\ w3' = Disconnected(w3)
  /\ w3' # w3
  /\ UNCHANGED <<firs, events, now, ret, pool, mined>>
  /\ UNCHANGED <<clock, ipfs, localStorage, cl, hs, sent, gen>>
  /\ UNCHANGED <<auth, dash, sc, height, minedAt>>

\* the auto-detect effect: eth_accounts answers with the exposed accounts,
\* or the request fails
CheckConnection ==
  /\ w3.detect = "pending"
  /\ \E o \in {"ok", "failed"} :
       w3' = IF w3.ethereum /\ o = "ok" /\ Len(w3.granted) > 0
               THEN [w3 EXCEPT !.account = w3.granted[1],
                               !.isConnected = TRUE, !.detect = "done"]
               ELSE [w3 EXCEPT !.detect = "done"]
  /\ UNCHANGED <<firs, events, now, ret, pool, mined>>
  /\ UNCHANGED <<clock, ipfs, localStorage, cl, hs, sent, gen>>
  /\ UNCHANGED <<auth, dash, sc, height, minedAt>>

\* the wallet exposes other accounts and the accountsChanged listener runs
AccountsChanged(accounts) ==
  /\ w3.ethereum
  /\ accounts # w3.granted
  /\ w3' = IF Len(accounts) > 0
             THEN [w3 EXCEPT !.account = accounts[1], !.isConnected = TRUE,
                             !.granted = accounts]
             ELSE [Disconnected(w3) EXCEPT !.granted = accounts]
  /\ UNCHANGED <<firs, events, now, ret, pool, mined>>
  /\ UNCHANGED <<clock, ipfs, localStorage, cl, hs, sent, gen>>
  /\ UNCHANGED <<auth, dash, sc, height, minedAt>>

\* the page is loaded with or without a wallet installed, which may already
\* expose accounts
WalletInit ==
  /\ RegistryInit
  /\ clock = 1 /\ ipfs = {} /\ localStorage = {} /\ cl = IdleCall
  /\ hs = IdleSubmit /\ sent = <<>> /\ gen = <<>>
  /\ \E e \in BOOLEAN, g \in AccountLists :
       /\ ~e => g = <<>>
       /\ w3 = [IdleWallet EXCEPT !.ethereum = e, !.granted = g]
  /\ auth = SignedOut
  /\ dash = IdleDash
  /\ sc = IdleCheck
  /\ height = CONTRACT_DEPLOYMENT_BLOCK
  /\ minedAt = <<>>

WalletNext ==
  \/ Connect
  \/ ConnectResolve
  \/ Disconnect
  \/ CheckConnection
  \/ \E accounts \in AccountLists : AccountsChanged(accounts)

SpecWallet == WalletInit /\ [][WalletNext]_vars

\* C30: in every state of the hook, isConnected is true exactly when account
\* is not null.
C30_ConnectedIffAccount ==
  w3.isConnected <=> w3.account # 0

\* after a successful connect, a disconnect and a change of accounts, a
\* second connect has failed and the hook still holds the changed account
C30_Witness ==
  /\ w3.account = 2
  /\ w3.isConnected
  /\ w3.toast = "Failed to connect wallet"
  /\ w3.detect = "done"
  /\ w3.connects = 0

(***************************************************************************)
(* The pages that read the registry.  Reports get registered by complete   *)
(* runs of handleSubmit; other callers use the contract directly.          *)
(***************************************************************************)
\* obj.key, for a key the object has
Get(obj, key) == obj[CHOOSE i \in 1..Len(obj) : obj[i][1] = key][2]

\* whether obj.key is truthy
Truthy(obj, key) ==
  \E i \in 1..Len(obj) : obj[i][1] = key /\ obj[i][2] # ""

\* the object as JSON.parse returns it from the text JSON.stringify made
Parse(text, candidates) == CHOOSE obj \in candidates : Stringify(obj) = text

\* response.json() of the gateway for a pinned object
GatewayJson(cid) ==
  Parse(Stringify(fetchFromIPFS(cid)), {e.content : e \in ipfs})

\* whether the gateway holds an object under cid
Pinned(cid) == \E e \in ipfs : e.cid = cid

\* the reports handleSubmit builds within MaxClock, without evidence files
Reports ==
  {FirData(f, w, c) : f \in Forms, w \in Callers, c \in 1..MaxClock}

\* the identifiers the dashboards compute for the reports they list
ListedIds ==
  {generateFIRId(WithEvidence(d, <<>>), t) : d \in Reports, t \in 1..MaxClock}

\* the identifiers in use where reports are registered and listed
PageIds == {generateFIRId(d, t) : d \in Reports, t \in 1..MaxClock}
             \cup ListedIds

\* a run of handleSubmit without evidence files in which both uploads, the
\* simulation and the transaction succeed, mined at the current height
SubmitRun(form, w) ==
  LET data == FirData(form, w, clock)
      content == WithEvidence(data, <<>>)
      firId == generateFIRId(data, clock)
  IN /\ SubmitRequire(firs, firId, Cid(content)) = "ok"
     /\ SubmitEffect(firId, Cid(content), ToBytes32(hashData(Stringify(data))),
                     w)
     /\ ipfs' = ipfs \cup {Pin(content)}
     /\ minedAt' = Append(minedAt, [log |-> Len(events) + 1,
                                    block |-> height])
     /\ UNCHANGED <<now, pool, mined>>
     /\ UNCHANGED <<clock, localStorage, cl, hs, sent, gen>>
     /\ UNCHANGED <<w3, auth, dash, sc, height>>

\* the names of the statuses in the pages: the inverse of statusMap
StatusName(s) ==
  CASE s = Pending -> "pending"
    [] s = UnderInvestigation -> "under_investigation"
    [] s = Closed -> "closed"

\* statusMap[newStatus]
StatusMap(name) ==
  CASE name = "pending" -> 0
    [] name = "under_investigation" -> 1
    [] name = "closed" -> 2

\* the texts typed into the search box of StatusCheck
SearchInputs == {""} \cup PageIds \cup {Cid(WithEvidence(d, <<>>)) : d \in Reports}

\* handleSearch up to its first await: the check of the input, setLoading,
\* setFirData(null)
SearchStart(id) ==
  /\ sc.pc = "idle"
  /\ sc' = IF id = ""
             THEN [sc EXCEPT !.toast = "Please enter a FIR ID"]
             ELSE [sc EXCEPT !.pc = "query", !.firId = id, !.loading = TRUE,
                             !.firData = <<>>, !.blockchainData = <<>>,
                             !.toast = ""]
  /\ sc' # sc
  /\ UNCHANGED <<firs, events, now, ret, pool, mined>>
  /\ UNCHANGED <<clock, ipfs, localStorage, cl, hs, sent, gen>>
  /\ UNCHANGED <<w3, auth, dash, height, minedAt>>

\* queryFIRFromBlockchain(firId): the fields of getFIR's answer, or null when
\* the call reverts or fails
queryFIRFromBlockchain(id, o) ==
  IF o = "ok" /\ id \in DOMAIN firs /\ getFIR(firs, id).reason = "ok"
    THEN LET v == getFIR(firs, id).value IN
         <<[dataCID |-> v[1], dataHash |-> v[2], status |-> v[3],
            timestamp |-> v[4], submitter |-> v[5]]>>
    ELSE <<>>

\* handleSearch from the answer of the registry to the request to the
\* gateway: with the registered locator, or with the input as a locator
SearchQueried ==
  /\ sc.pc = "query"
  /\ \E o \in {"ok", "failed"} :
       sc' = [sc EXCEPT !.pc = "fetch",
                        !.blockchainData = queryFIRFromBlockchain(sc.firId, o)]
  /\ UNCHANGED <<firs, events, now, ret, pool, mined>>
  /\ UNCHANGED <<clock, ipfs, localStorage, cl, hs, sent, gen>>
  /\ UNCHANGED <<w3, auth, dash, height, minedAt>>

\* setFirData({ ...ipfsData, id: firId, ipfsCID: blockchainData.dataCID,
\* blockchainTxHash: firId }): the fields the page shows
SearchShown(ipfsData, blockchainData) ==
  <<[id |-> sc.firId, status |-> Get(ipfsData, "status"),
     ipfsCID |-> blockchainData[1].dataCID]>>

\* handleSearch from the answer of the gateway to its end
SearchFetched ==
  /\ sc.pc = "fetch"
  /\ \E o \in {"ok", "failed"} :
       LET viaRegistry ==
             sc.blockchainData # <<>> /\ sc.blockchainData[1].dataCID # ""
           cid == IF viaRegistry THEN sc.blockchainData[1].dataCID
                  ELSE sc.firId
       IN sc' =
            IF o = "ok" /\ Pinned(cid)
              THEN [sc EXCEPT
                      !.pc = "idle", !.loading = FALSE,
                      !.firData =
                        IF viaRegistry
                          THEN SearchShown(GatewayJson(cid), sc.blockchainData)
                          ELSE <<[id |-> sc.firId,
                                  status |-> Get(GatewayJson(cid), "status"),
                                  ipfsCID |-> sc.firId]>>,
                      !.toast = IF viaRegistry THEN "FIR found and verified!"
                                ELSE "FIR found on IPFS"]
              ELSE [sc EXCEPT
                      !.pc = "idle", !.loading = FALSE,
                      !.toast =
                        IF viaRegistry
                          THEN "Failed to retrieve FIR. Please try again."
                          ELSE "FIR not found. Please check the ID and try again."]
  /\ UNCHANGED <<firs, events, now, ret, pool, mined>>
  /\ UNCHANGED <<clock, ipfs, localStorage, cl, hs, sent, gen>>
  /\ UNCHANGED <<w3, auth, dash, height, minedAt>>

\* the registry as the pages meet it: nothing registered yet
PageInit ==
  /\ firs = [id \in PageIds |-> DefaultFIR]
  /\ events = <<>>
  /\ now = 1
  /\ ret = Outcome("deploy", "ok", <<>>)
  /\ pool = {}
  /\ mined = <<>>
  /\ ClientInit

LookupNext ==
  \/ \E form \in Forms, w \in Callers : SubmitRun(form, w)
  \/ \E id \in PageIds, s \in Statuses : UpdateFIRStatus(id, s, OtherCaller)
  \/ \E id \in SearchInputs : SearchStart(id)
  \/ SearchQueried
  \/ SearchFetched
  \/ Tick

SpecLookup == PageInit /\ [][LookupNext]_vars

\* C22: when handleSearch(id) finds a registered FIR, the status it displays
\* is the status the registry returned for id.
C22_LookupShowsRegistryStatus ==
  [][(sc.pc = "fetch" /\ sc'.pc = "idle" /\ sc'.firData # <<>>
        /\ sc.blockchainData # <<>>)
       => sc'.firData[1].status = StatusName(sc.blockchainData[1].status)]_vars

(***************************************************************************)
(* The dashboards: the routes, the listing of the registered reports and   *)
(* the status control of the police dashboard.                             *)
(***************************************************************************)
\* the number of blocks queryAllFIRSubmittedEvents looks back
LookBack == 10000

\* the block heights told apart: the deployment block, the next one, and
\* the first one from which the deployment block is out of the window
Heights ==
  {CONTRACT_DEPLOYMENT_BLOCK, CONTRACT_DEPLOYMENT_BLOCK + 1,
   CONTRACT_DEPLOYMENT_BLOCK + LookBack + 1}

\* the chain grows
Advance(h) ==
  /\ h > height
  /\ height' = h
  /\ UNCHANGED <<firs, events, now, ret, pool, mined>>
  /\ UNCHANGED <<clock, ipfs, localStorage, cl, hs, sent, gen>>
  /\ UNCHANGED <<w3, auth, dash, sc, minedAt>>

\* the topic of an indexed string parameter of an event
Keccak256(text) == "keccak256(" \o text \o ")"

\* the block in which the i-th event of the contract was emitted
BlockOf(i) == (CHOOSE m \in {minedAt[k] : k \in DOMAIN minedAt} : m.log = i).block

Max(a, b) == IF a >= b THEN a ELSE b

\* Math.max(Number(currentBlock) - 10000, CONTRACT_DEPLOYMENT_BLOCK)
FromBlock == Max(height - LookBack, CONTRACT_DEPLOYMENT_BLOCK)

\* getPastEvents('FIRSubmitted', { fromBlock, toBlock: 'latest' })
InWindow(i) == events[i].name = "FIRSubmitted" /\ BlockOf(i) >= FromBlock

\* queryAllFIRSubmittedEvents(): one entry per event the node returns, none
\* when no contract code is found or a request fails
queryAllFIRSubmittedEvents(o) ==
  IF o # "ok" THEN <<>>
  ELSE LET sel == SelectSeq([i \in 1..Len(events) |-> i], InWindow) IN
       [k \in 1..Len(sel) |->
          [firIdHash |-> Keccak256(events[sel[k]].firId),
           dataCID |-> events[sel[k]].dataCID,
           submitter |-> events[sel[k]].submitter,
           blockNumber |-> BlockOf(sel[k]),
           transactionHash |-> sel[k]]]

\* an object another client pinned: its id field is a blank
OtherContent == << <<"id", " ">>, <<"status", "pending">> >>

\* the identifiers a dashboard computes now for the objects pinned
ShownIds == {generateFIRId(e.content, clock) : e \in ipfs}

\* another caller registers a locator under an identifier a dashboard shows:
\* the locator of OtherContent, which it pinned, or one nobody pinned
OtherSubmit(id, pinned) ==
  LET cid == IF pinned THEN Cid(OtherContent) ELSE OtherCID IN
  /\ id \in ShownIds
  /\ SubmitRequire(firs, id, cid) = "ok"
  /\ SubmitEffect(id, cid, OtherHash, OtherCaller)
  /\ ipfs' = IF pinned THEN ipfs \cup {Pin(OtherContent)} ELSE ipfs
  /\ minedAt' = Append(minedAt, [log |-> Len(events) + 1, block |-> height])
  /\ UNCHANGED <<now, pool, mined>>
  /\ UNCHANGED <<clock, localStorage, cl, hs, sent, gen>>
  /\ UNCHANGED <<w3, auth, dash, sc, height>>

\* the entry a dashboard makes of an event and the object behind its locator
Listed(event, ipfsData) ==
  [id |-> IF Truthy(ipfsData, "id") THEN Get(ipfsData, "id")
          ELSE generateFIRId(ipfsData, clock),
   status |-> Get(ipfsData, "status"),
   blockchainTxHash |-> event.transactionHash,
   submitter |-> event.submitter]

RECURSIVE Entries(_, _)
\* Promise.all over the events, then the filter of the failed fetches
Entries(evs, down) ==
  IF evs = <<>> THEN <<>>
  ELSE LET e == Head(evs) IN
       IF Pinned(e.dataCID) /\ e.transactionHash \notin down
         THEN <<Listed(e, GatewayJson(e.dataCID))>> \o Entries(Tail(evs), down)
         ELSE Entries(Tail(evs), down)

\* event.submitter.toLowerCase() === account.toLowerCase()
OfAccount(evs, account) ==
  SelectSeq(evs, LAMBDA e : e.submitter = account)

\* UserRole
UserRoles == {"civilian", "police"}

Routes ==
  {"/", "/login", "/status-check", "/fir-submission", "/civilian-dashboard",
   "/police-dashboard"}

\* the routes wrapped in ProtectedRoute
Protected == {"/fir-submission", "/civilian-dashboard", "/police-dashboard"}

\* the state of useWeb3 in a page just mounted
Mounted(w) ==
  [IdleWallet EXCEPT !.granted = w.granted, !.ethereum = w.ethereum]

\* the route shown for a path: ProtectedRoute sends the user who is not
\* authenticated to the login page
Shown(role, r) == IF r \in Protected /\ role = "none" THEN "/login" ELSE r

Navigate(r) ==
  /\ Shown(auth.role, r) # auth.route
  /\ auth' = [auth EXCEPT !.route = Shown(auth.role, r)]
  /\ dash' = IdleDash
  /\ w3' = Mounted(w3)
  /\ UNCHANGED <<firs, events, now, ret, pool, mined>>
  /\ UNCHANGED <<clock, ipfs, localStorage, cl, hs, sent, gen>>
  /\ UNCHANGED <<sc, height, minedAt>>

\* Login: signIn of a user whose role is role, then navigate to the
\* dashboard of the role chosen in the form
SignIn(role, chosen) ==
  /\ auth.route = "/login"
  /\ auth' = [role |-> role,
              route |-> IF chosen = "police" THEN "/police-dashboard"
                        ELSE "/civilian-dashboard"]
  /\ dash' = IdleDash
  /\ w3' = Mounted(w3)
  /\ UNCHANGED <<firs, events, now, ret, pool, mined>>
  /\ UNCHANGED <<clock, ipfs, localStorage, cl, hs, sent, gen>>
  /\ UNCHANGED <<sc, height, minedAt>>

\* Navbar: signOut, then navigate('/')
SignOut ==
  /\ auth.role # "none"
  /\ auth' = SignedOut
  /\ dash' = IdleDash
  /\ w3' = Mounted(w3)
  /\ UNCHANGED <<firs, events, now, ret, pool, mined>>
  /\ UNCHANGED <<clock, ipfs, localStorage, cl, hs, sent, gen>>
  /\ UNCHANGED <<sc, height, minedAt>>

\* the effect of PoliceDashboard on [userRole]: fetchAllFIRs
FetchAllFIRs ==
  /\ auth.route = "/police-dashboard"
  /\ dash.ran = <<>>
  /\ \E o \in {"ok", "nocode", "failed"}, down \in SUBSET (1..Len(events)) :
       /\ o # "ok" => down = {}
       /\ dash' =
            IF auth.role # "police"
              THEN [dash EXCEPT !.ran = <<0>>,
                      !.toast = "Access denied. Police personnel only."]
              ELSE [dash EXCEPT !.ran = <<0>>,
                      !.firs = Entries(queryAllFIRSubmittedEvents(o), down)]
  /\ UNCHANGED <<firs, events, now, ret, pool, mined>>
  /\ UNCHANGED <<clock, ipfs, localStorage, cl, hs, sent, gen>>
  /\ UNCHANGED <<w3, auth, sc, height, minedAt>>

\* the effect of CivilianDashboard on [account]: fetchUserFIRs
FetchUserFIRs ==
  /\ auth.route = "/civilian-dashboard"
  /\ dash.ran # <<w3.account>>
  /\ \E o \in {"ok", "nocode", "failed"}, down \in SUBSET (1..Len(events)) :
       /\ (o # "ok" \/ w3.account = 0) => down = {}
       /\ dash' =
            IF w3.account = 0
              THEN [dash EXCEPT !.ran = <<w3.account>>, !.firs = <<>>]
              ELSE [dash EXCEPT !.ran = <<w3.account>>,
                      !.firs = Entries(OfAccount(queryAllFIRSubmittedEvents(o),
                                                 w3.account), down)]
  /\ UNCHANGED <<firs, events, now, ret, pool, mined>>
  /\ UNCHANGED <<clock, ipfs, localStorage, cl, hs, sent, gen>>
  /\ UNCHANGED <<w3, auth, sc, height, minedAt>>

\* the status control on every page that lists reports
StatusControlShown_AnyListing == dash.firs # <<>>

\* whether the Select of a listed report is rendered: the police dashboard,
\* past its guard on userRole, with a report listed
StatusControlShown ==
  /\ auth.route = "/police-dashboard"
  /\ auth.role = "police"
  /\ dash.firs # <<>>

\* the status updates issued from the dashboard
MaxUpdates == 1

\* firId.trim()
Trim(text) == IF text = " " THEN "" ELSE text

\* the list after an update that changes it whatever the call returned
UpdatedList_Optimistic(result, list, firId, newStatus) ==
  [k \in 1..Len(list) |->
     IF list[k].id = firId THEN [list[k] EXCEPT !.status = newStatus]
     ELSE list[k]]

\* setFirs(firs.map(...)) after the call returned, nothing when it threw
UpdatedList(result, list, firId, newStatus) ==
  IF result[1] = "returned"
    THEN [k \in 1..Len(list) |->
            IF list[k].id = firId THEN [list[k] EXCEPT !.status = newStatus]
            ELSE list[k]]
    ELSE dash.firs

\* handleStatusUpdate(fir.id, newStatus) up to its first await
DashUpdateStart(i, newStatus) ==
  LET firId == dash.firs[i].id IN
  /\ StatusControlShown
  /\ i \in 1..Len(dash.firs)
  /\ ~dash.isUpdating
  /\ dash.pc = "idle"
  /\ cl.pc \in {"idle", "done"}
  /\ IF Trim(firId) = ""
       THEN /\ dash' = [dash EXCEPT !.toast = "Invalid FIR ID"]
            /\ UNCHANGED <<cl, w3>>
     ELSE IF ~w3.isConnected \/ w3.account = 0
       THEN /\ w3.connects < MaxConnects
            /\ dash' = [dash EXCEPT
                          !.toast = "Please connect your wallet first"]
            /\ w3' = [w3 EXCEPT !.isConnecting = TRUE, !.connects = @ + 1]
            /\ UNCHANGED cl
     ELSE /\ cl.n < MaxUpdates
          /\ dash' = [dash EXCEPT !.isUpdating = TRUE, !.pc = "updating",
                                  !.firId = firId, !.newStatus = newStatus,
                                  !.closure = dash.firs, !.toast = ""]
          /\ cl' = UpdateEntry(firId, StatusMap(newStatus), w3.account)
          /\ UNCHANGED w3
  /\ UNCHANGED <<firs, events, now, ret, pool, mined>>
  /\ UNCHANGED <<clock, ipfs, localStorage, hs, sent, gen>>
  /\ UNCHANGED <<auth, sc, height, minedAt>>

\* handleStatusUpdate from the end of updateFIRStatusOnBlockchain to its own
DashUpdateReturn ==
  /\ dash.pc = "updating"
  /\ cl.pc = "done"
  /\ dash' = [dash EXCEPT
                !.pc = "idle", !.isUpdating = FALSE,
                !.firs = UpdatedList(cl.result, dash.closure, dash.firId,
                                     dash.newStatus),
                !.toast = IF cl.result[1] = "returned" THEN "Status updated!"
                          ELSE cl.result[2]]
  /\ UNCHANGED <<firs, events, now, ret, pool, mined>>
  /\ UNCHANGED <<clock, ipfs, localStorage, cl, hs, sent, gen>>
  /\ UNCHANGED <<w3, auth, sc, height, minedAt>>

\* a browser in which the wallet has granted the site an account before,
\* or none
ListingInit ==
  /\ PageInit
  /\ \E g \in {<<>>, <<1>>} : w3 = [IdleWallet EXCEPT !.granted = g]

ListingNext ==
  \/ \E form \in Forms, w \in Callers : SubmitRun(form, w)
  \/ \E id \in ListedIds, pinned \in BOOLEAN : OtherSubmit(id, pinned)
  \/ \E h \in Heights : Advance(h)
  \/ Tick
  \/ Navigate("/login")
  \/ \E role \in UserRoles, chosen \in UserRoles : SignIn(role, chosen)
  \/ CheckConnection
  \/ FetchAllFIRs
  \/ FetchUserFIRs

SpecListing == ListingInit /\ [][ListingNext]_vars

\* the identifiers in use while the clock stands at its first value: those
\* handleSubmit registers for the first wallet and those the dashboards show
DashIds ==
  {generateFIRId(FirData(f, 1, 1), 1) : f \in Forms}
    \cup {generateFIRId(WithEvidence(FirData(f, 1, 1), <<>>), 1) : f \in Forms}

DashInit ==
  /\ firs = [id \in DashIds |-> DefaultFIR]
  /\ events = <<>>
  /\ now = 1
  /\ ret = Outcome("deploy", "ok", <<>>)
  /\ pool = {}
  /\ mined = <<>>
  /\ ClientInit

DashNext ==
  \/ \E form \in Forms : SubmitRun(form, 1)
  \/ \E id \in DashIds, pinned \in BOOLEAN : OtherSubmit(id, pinned)
  \/ \E r \in Routes : Navigate(r)
  \/ \E role \in UserRoles, chosen \in UserRoles : SignIn(role, chosen)
  \/ SignOut
  \/ CheckConnection
  \/ ConnectResolve
  \/ FetchAllFIRs
  \/ FetchUserFIRs
  \/ \E i \in 1..MaxEvents, newStatus \in {"pending", "under_investigation",
                                           "closed"} :
       DashUpdateStart(i, newStatus)
  \/ UpdateSteps
  \/ DashUpdateReturn

SpecDash == DashInit /\ [][DashNext]_vars

\* C21: at any block height, queryAllFIRSubmittedEvents returns one entry
\* for every FIRSubmitted event the contract has emitted since its deployment
\* block.
C21_EnumeratesAllRecords ==
  Len(queryAllFIRSubmittedEvents("ok"))
    = Cardinality({i \in 1..Len(events) : events[i].name = "FIRSubmitted"})

\* the locators of the objects handleSubmit pins
ReportCIDs == {Cid(WithEvidence(d, <<>>)) : d \in Reports}

\* C27: the id of every report a dashboard lists, which it passes to
\* updateFIRStatusOnBlockchain or puts in the status-check link, is the
\* identifier under which handleSubmit registered that report.
C27_ListedIdIsRegisteredId ==
  \A k \in 1..Len(dash.firs) :
    LET e == events[dash.firs[k].blockchainTxHash] IN
    e.dataCID \in ReportCIDs => dash.firs[k].id = e.firId

\* C23: through the application a status update is issued only by the police
\* role: updateFIRStatusOnBlockchain is called only while userRole is
\* 'police', on the police dashboard, and a user of another role is never
\* shown the status control.
C23_OnlyPoliceUpdates ==
  [][/\ cl'.n > cl.n =>
          auth.role = "police" /\ auth.route = "/police-dashboard"
     /\ auth.role # "police" => ~StatusControlShown]_vars

\* a civilian on the status lookup page of a browser in which a police user
\* issued a status update before
C23_Witness ==
  /\ auth.role = "civilian"
  /\ auth.route = "/status-check"
  /\ cl.fn = "updateFIRStatus"
  /\ cl.n > 0

\* C26: handleStatusUpdate changes the status shown for a report only after
\* updateFIRStatusOnBlockchain returned a transaction hash; with a blank id,
\* without a connected wallet or after a failed update the list stays as it
\* was, and isUpdating is set only while the handler waits for the call.
C26_LocalStatusAfterTransaction ==
  [][(auth' = auth /\ dash'.ran = dash.ran) =>
       /\ dash'.firs # dash.firs =>
            /\ dash.pc = "updating"
            /\ cl.pc = "done"
            /\ cl.fn = "updateFIRStatus"
            /\ cl.result[1] = "returned"
       /\ dash'.isUpdating <=> dash'.pc = "updating"
       /\ dash'.toast \in {"Invalid FIR ID", "Please connect your wallet first"}
            => dash'.firs = dash.firs /\ cl' = cl]_vars

\* the handler has finished after a transaction hash came back, and the
\* list shows the new status
C26_Witness ==
  /\ dash.pc = "idle"
  /\ ~dash.isUpdating
  /\ dash.toast = "Status updated!"
  /\ \E k \in 1..Len(dash.firs) : dash.firs[k].status = "closed"

====
